---- MODULE Spec2Model ----
(***************************************************************************)
(* Model of the socket.io chat server (src/unnamed/part_001, the current   *)
(* server script; src/script.js and src/unnamed/part_000 hold its earlier  *)
(* variants; src/models/message.js and src/unnamed/part_002 the schemas).  *)
(*                                                                         *)
(* Granularity.  Every socket event handler is a sequence of atomic steps, *)
(* one per `await` on storage.  A step is the effect of the awaited        *)
(* storage operation followed by the synchronous code that runs when the   *)
(* handler resumes, up to the next await.  The synchronous prefix of a     *)
(* handler and its first storage read form its first step.  Handlers of    *)
(* all connections interleave freely between steps, and any awaited        *)
(* storage operation may throw.                                            *)
(*                                                                         *)
(* Emissions.  What a step emits is the value of its ...Out operator in    *)
(* the state the step is taken in: a set of records, one per receiving     *)
(* connection.  `emitted` keeps the receive_message records of all steps   *)
(* taken so far.                                                           *)
(***************************************************************************)
EXTENDS Integers, Sequences, FiniteSets, TLC

\* ------------------------------------------------------------------ bounds
\* Two environments bound a run.
\* "wide": three connections that connect, announce and disconnect, one handler
\* in flight, one chat, one message.  c1 is u1's client and talks to u2; c2
\* announces u2 or u3, reads as u2 and sends as u3 (who is in no chat with u2);
\* c3 is a second connection of u2.
\* "deep": two connections of which only c2 disconnects, two handlers in flight,
\* two chats, one message.  c1 talks as u1 to u2, c2 announces and talks as u2 to
\* u1; both may acknowledge reading as u2.
\* "read": two connections of which only c2 disconnects, two handlers in flight,
\* one chat, one message.  c1 announces u1 and talks as u1 to u2; c2 announces u2
\* and acknowledges reading as u2 or as u3 (a reader outside the chat).
\* "late": three connections that stay connected, two handlers in flight, one
\* chat, one message.  c1 talks as u1 to u2, c2 announces u2, c3 is a second
\* connection of u2 that talks to u1; only join_chat and send_message are issued.
WideConns == 3
WideTasks == 1
WideChats == 1
WideMsgs == 1
DeepConns == 2
DeepTasks == 2
DeepChats == 2
DeepMsgs == 1
ReadConns == 2
ReadTasks == 2
ReadChats == 1
ReadMsgs == 1
LateConns == 3
LateTasks == 2
LateChats == 1
LateMsgs == 1
OrderConns == 2
OrderTasks == 2
OrderChats == 1
OrderMsgs == 2
HistConns == 2
HistTasks == 1
HistChats == 2
HistMsgs == 52

\* ------------------------------------------------------------- value sets
Users == {"u1", "u2", "u3"}
ConnOrder == <<"c1", "c2", "c3", "c4">>
Conns == {ConnOrder[k] : k \in 1..Len(ConnOrder)}
None == "none"
Nil == 0
HistoryLimit == 50
SP == " "
TextChars == <<SP, "h", "i", SP>>
Texts ==
  { [present |-> FALSE, chars |-> <<>>],
    [present |-> TRUE, chars |-> <<>>],
    [present |-> TRUE, chars |-> <<SP, SP>>],
    [present |-> TRUE, chars |-> TextChars] }

\* The client events the environment issues: user_online as <<connection, userId>>,
\* join_chat, accept_chat, send_message and typing as <<connection, senderId or
\* userId, receiverId>>, mark_as_read as <<connection, userId>>.
WideAnnounces == {<<"c1", "u1">>, <<"c2", "u2">>, <<"c2", "u3">>, <<"c3", "u2">>}
WideTalks == {<<"c1", "u1", "u2">>, <<"c2", "u3", "u1">>}
DeepAnnounces == {<<"c2", "u2">>}
DeepTalks == {<<"c1", "u1", "u2">>, <<"c2", "u2", "u1">>}
WideReads == {<<"c2", "u2">>}
DeepReads == {<<"c1", "u2">>, <<"c2", "u2">>}
DeepCloses == {"c2"}
ReadAnnounces == {<<"c1", "u1">>, <<"c2", "u2">>}
ReadTalks == {<<"c1", "u1", "u2">>}
ReadReads == {<<"c2", "u2">>, <<"c2", "u3">>}

Wide ==
  [name |-> "wide", conns |-> WideConns, tasks |-> WideTasks, chats |-> WideChats,
   msgs |-> WideMsgs, closes |-> Conns, announces |-> WideAnnounces,
   talks |-> WideTalks, reads |-> WideReads]

Deep ==
  [name |-> "deep", conns |-> DeepConns, tasks |-> DeepTasks, chats |-> DeepChats,
   msgs |-> DeepMsgs, closes |-> DeepCloses, announces |-> DeepAnnounces,
   talks |-> DeepTalks, reads |-> DeepReads]

LateTalks == {<<"c1", "u1", "u2">>, <<"c3", "u2", "u1">>}
OrderTalks == {<<"c1", "u1", "u2">>}
HistTalks == {<<"c1", "u1", "u2">>, <<"c2", "u3", "u1">>}
\* The creation positions at which the stored message belongs to the second chat.
HistOthers == {{}, {1}, {2, 3}}

Read ==
  [name |-> "read", conns |-> ReadConns, tasks |-> ReadTasks, chats |-> ReadChats,
   msgs |-> ReadMsgs, closes |-> DeepCloses, announces |-> ReadAnnounces,
   talks |-> ReadTalks, reads |-> ReadReads]

Late ==
  [name |-> "late", conns |-> LateConns, tasks |-> LateTasks, chats |-> LateChats,
   msgs |-> LateMsgs, closes |-> {}, announces |-> DeepAnnounces,
   talks |-> LateTalks, reads |-> {}]

Order ==
  [name |-> "order", conns |-> OrderConns, tasks |-> OrderTasks, chats |-> OrderChats,
   msgs |-> OrderMsgs, closes |-> {}, announces |-> DeepAnnounces,
   talks |-> OrderTalks, reads |-> {}]

History ==
  [name |-> "history", conns |-> HistConns, tasks |-> HistTasks, chats |-> HistChats,
   msgs |-> HistMsgs, closes |-> {}, announces |-> DeepAnnounces,
   talks |-> HistTalks, reads |-> {}]

VARIABLES env, sockets, userId, onlineUsers, rooms, chats, messages, tasks, emitted

vars == <<env, sockets, userId, onlineUsers, rooms, chats, messages, tasks, emitted>>

MaxTasks == env.tasks
MaxChats == env.chats
MaxMsgs == env.msgs
ChatIds == 1..MaxChats

\* ---------------------------------------------------------------- helpers
RECURSIVE TrimLeft(_)
TrimLeft(s) == IF s # <<>> /\ Head(s) = SP THEN TrimLeft(Tail(s)) ELSE s

RECURSIVE TrimRight(_)
TrimRight(s) ==
  IF s # <<>> /\ s[Len(s)] = SP THEN TrimRight(SubSeq(s, 1, Len(s) - 1)) ELSE s

Trim(s) == TrimRight(TrimLeft(s))

\* The check without the trim: !text
IsBlankNoTrim(text) == ~text.present \/ text.chars = <<>>

\* !text?.trim()
IsBlank(text) == ~text.present \/ Trim(text.chars) = <<>>

\* io.sockets.sockets: the connected sockets
Live == {c \in Conns : sockets[c] = "live"}

Ev(ev, to, chat, msg, user, info) ==
  [ev |-> ev, to |-> to, chat |-> chat, msg |-> msg, user |-> user, info |-> info,
   list |-> <<>>]

HistoryEv(to, list) ==
  [ev |-> "chat_history", to |-> to, chat |-> Nil, msg |-> Nil, user |-> None,
   info |-> "", list |-> list]

\* io.emit
ToAll(ev, chat, msg, user, info) == {Ev(ev, c, chat, msg, user, info) : c \in Live}

\* socket.emit
ToSocket(c, ev, chat, msg, user, info) ==
  IF sockets[c] = "live" THEN {Ev(ev, c, chat, msg, user, info)} ELSE {}

\* io.to(room).emit
ToRoom(r, ev, chat, msg, user, info) ==
  {Ev(ev, c, chat, msg, user, info) : c \in rooms[r] \cap Live}

\* socket.to(room).emit
ToRoomExcept(r, c0, ev, chat, msg, user, info) ==
  {Ev(ev, c, chat, msg, user, info) : c \in (rooms[r] \cap Live) \ {c0}}

\* socket.join(room)
Join(rm, c, r) == [rm EXCEPT ![r] = @ \cup {c}]

RemoveAt(s, i) == SubSeq(s, 1, i - 1) \o SubSeq(s, i + 1, Len(s))

Has(seq, x) == \E k \in 1..Len(seq) : seq[k] = x

Record(o) == emitted \cup {e \in o : e.ev = "receive_message"}

\* ------------------------------------------------------------------- Init
InitIn(e) ==
  /\ env = e
  /\ sockets = [c \in Conns |-> "fresh"]
  /\ userId = [c \in Conns |-> None]
  /\ onlineUsers = [u \in Users |-> None]
  /\ rooms = [r \in 1..e.chats |-> {}]
  /\ chats = <<>>
  /\ messages = <<>>
  /\ tasks = <<>>
  /\ emitted = {}

Init == \E e \in {Wide, Deep, Read} : InitIn(e)

\* ------------------------------------------------ connection and presence
\* io.on("connection"): socket ids are handed out in the order of ConnOrder.
Connect(c) ==
  /\ sockets[c] = "fresh"
  /\ \E k \in 1..env.conns :
       ConnOrder[k] = c /\ \A j \in 1..(k - 1) : sockets[ConnOrder[j]] # "fresh"
  /\ sockets' = [sockets EXCEPT ![c] = "live"]
  /\ UNCHANGED <<env, userId, onlineUsers, rooms, chats, messages, tasks, emitted>>

UserOnlineOut(c, u) == ToAll("user_status", Nil, Nil, u, "online")

UserOnline(c, u) ==
  /\ sockets[c] = "live"
  /\ onlineUsers' = [onlineUsers EXCEPT ![u] = c]
  /\ userId' = [userId EXCEPT ![c] = u]
  /\ UNCHANGED <<env, sockets, rooms, chats, messages, tasks, emitted>>

\* onlineUsers.delete(socket.userId)
Offline(c) ==
  IF userId[c] # None THEN [onlineUsers EXCEPT ![userId[c]] = None] ELSE onlineUsers

DisconnectOut(c) ==
  IF userId[c] # None
    THEN {Ev("user_status", d, Nil, Nil, userId[c], "offline") : d \in Live \ {c}}
    ELSE {}

\* The socket leaves its rooms and io.sockets.sockets, then the handler runs.
Disconnect(c) ==
  /\ sockets[c] = "live"
  /\ c \in env.closes
  /\ sockets' = [sockets EXCEPT ![c] = "closed"]
  /\ rooms' = [r \in DOMAIN rooms |-> rooms[r] \ {c}]
  /\ onlineUsers' = Offline(c)
  /\ UNCHANGED <<env, userId, chats, messages, tasks, emitted>>

\* ---------------------------------------------------------------- storage
\* ChatModel.findOne({participants: {$all: [a, b]}}): the first stored chat
\* whose participants contain both, or null.
FindOne(a, b) ==
  LET hits == {k \in 1..Len(chats) :
                 Has(chats[k].participants, a) /\ Has(chats[k].participants, b)}
  IN IF hits = {} THEN Nil ELSE CHOOSE k \in hits : \A j \in hits : k <= j

\* ChatModel.findById(id)
FindChatById(id) == IF id \in 1..Len(chats) THEN id ELSE Nil

\* The lookup falling back to the newest message when the id matches none
FindMessageByIdOrLast(id) == IF id \in 1..Len(messages) THEN id ELSE Len(messages)

\* MessageModel.findById(id)
FindMessageById(id) == IF id \in 1..Len(messages) THEN id ELSE Nil

\* ChatModel.create({participants: [senderId, receiverId]})
NewChat(a, b) == [participants |-> <<a, b>>, lastMessage |-> Nil]

\* MessageModel.create({chatId, senderId, text: text.trim(), readBy: [senderId],
\* status: "sent"})
NewMessage(chat, sender, chars) ==
  [chatId |-> chat, senderId |-> sender, text |-> Trim(chars),
   status |-> "sent", readBy |-> <<sender>>]

\* MessageModel.find({chatId}).sort({createdAt: 1}).limit(50): message ids are
\* assigned in creation order.
RECURSIVE IdsOfChat(_, _, _)
IdsOfChat(msgs, chat, k) ==
  IF k > Len(msgs) THEN <<>>
  ELSE (IF msgs[k].chatId = chat THEN <<k>> ELSE <<>>) \o IdsOfChat(msgs, chat, k + 1)

Limit(seq, n) == SubSeq(seq, 1, IF Len(seq) < n THEN Len(seq) ELSE n)

ChatHistory(msgs, chat) == Limit(IdsOfChat(msgs, chat, 1), HistoryLimit)

\* ------------------------------------------------------------------ tasks
\* A handler suspended at an await; pc names the storage operation awaited.
Task(kind, pc, c, s, r, chars, chat, msg, rsock, loaded) ==
  [kind |-> kind, pc |-> pc, conn |-> c, sender |-> s, receiver |-> r,
   text |-> chars, chat |-> chat, msg |-> msg, rsock |-> rsock, loaded |-> loaded]

TaskIds == 1..Len(tasks)

At(i, kind, pc) == i \in TaskIds /\ tasks[i].kind = kind /\ tasks[i].pc = pc

Goto(i, pc) == [tasks EXCEPT ![i].pc = pc]

\* io.sockets.sockets.get(receiverSocketId)
ReceiverSocket(rsock) == IF rsock # None /\ sockets[rsock] = "live" THEN {rsock} ELSE {}

\* --------------------------------------------------------------- join_chat
JoinError(c) == ToSocket(c, "error", Nil, Nil, None, "Failed to join chat")

\* data = {senderId: s, receiverId: r}; ok: the findOne does not throw.
JoinChatOut(c, s, r, ok) ==
  IF ~ok THEN JoinError(c)
  ELSE IF FindOne(s, r) # Nil THEN ToSocket(c, "chat_joined", FindOne(s, r), Nil, None, "")
  ELSE {}

JoinChat(c, s, r, ok) ==
  /\ sockets[c] = "live"
  /\ Len(tasks) < MaxTasks
  /\ LET chat == FindOne(s, r)
     IN IF ~ok
          THEN UNCHANGED <<rooms, tasks>>
          ELSE IF chat # Nil
          THEN /\ rooms' = Join(rooms, c, chat)
               /\ tasks' = Append(tasks,
                    Task("join", "history", c, s, r, <<>>, chat, Nil, None, ""))
          ELSE /\ tasks' = Append(tasks,
                    Task("join", "create_chat", c, s, r, <<>>, Nil, Nil, None, ""))
               /\ UNCHANGED rooms
  /\ UNCHANGED <<env, sockets, userId, onlineUsers, chats, messages, emitted>>

JoinCreateChatOut(i) ==
  ToSocket(tasks[i].conn, "chat_joined", Len(chats) + 1, Nil, None, "")

JoinCreateChat(i) ==
  /\ At(i, "join", "create_chat")
  /\ Len(chats) < MaxChats
  /\ LET t == tasks[i]
         chat == Len(chats) + 1
     IN /\ chats' = Append(chats, NewChat(t.sender, t.receiver))
        /\ rooms' = Join(rooms, t.conn, chat)
        /\ tasks' = [tasks EXCEPT ![i].pc = "history", ![i].chat = chat]
  /\ UNCHANGED <<env, sockets, userId, onlineUsers, messages, emitted>>

JoinHistoryOut(i) ==
  LET t == tasks[i]
      list == ChatHistory(messages, t.chat)
      rs == ReceiverSocket(onlineUsers[t.receiver])
  IN (IF sockets[t.conn] = "live" THEN {HistoryEv(t.conn, list)} ELSE {})
     \cup {Ev("chat_joined", d, t.chat, Nil, None, "") : d \in rs}
     \cup {HistoryEv(d, list) : d \in rs}

JoinHistory(i) ==
  /\ At(i, "join", "history")
  /\ rooms' = [rooms EXCEPT ![tasks[i].chat] =
                 @ \cup ReceiverSocket(onlineUsers[tasks[i].receiver])]
  /\ tasks' = RemoveAt(tasks, i)
  /\ UNCHANGED <<env, sockets, userId, onlineUsers, chats, messages, emitted>>

JoinFailOut(i) == JoinError(tasks[i].conn)

JoinFail(i) ==
  /\ i \in TaskIds
  /\ tasks[i].kind = "join"
  /\ tasks' = RemoveAt(tasks, i)
  /\ UNCHANGED <<env, sockets, userId, onlineUsers, rooms, chats, messages, emitted>>

\* ------------------------------------------------------------- accept_chat
AcceptChat(c, chat) ==
  /\ sockets[c] = "live"
  /\ Len(tasks) < MaxTasks
  /\ chat \in 1..Len(chats)
  /\ rooms' = Join(rooms, c, chat)
  /\ tasks' = Append(tasks,
       Task("accept", "history", c, None, None, <<>>, chat, Nil, None, ""))
  /\ UNCHANGED <<env, sockets, userId, onlineUsers, chats, messages, emitted>>

AcceptHistoryOut(i) ==
  IF sockets[tasks[i].conn] = "live"
    THEN {HistoryEv(tasks[i].conn, ChatHistory(messages, tasks[i].chat))}
    ELSE {}

AcceptHistory(i) ==
  /\ At(i, "accept", "history")
  /\ tasks' = RemoveAt(tasks, i)
  /\ UNCHANGED <<env, sockets, userId, onlineUsers, rooms, chats, messages, emitted>>

AcceptFail(i) ==
  /\ i \in TaskIds
  /\ tasks[i].kind = "accept"
  /\ tasks' = RemoveAt(tasks, i)
  /\ UNCHANGED <<env, sockets, userId, onlineUsers, rooms, chats, messages, emitted>>

\* ------------------------------------------------------------ send_message
\* The report with io.emit in place of socket.emit
SendErrorToAll(c) == ToAll("message_error", Nil, Nil, None, "Failed to send message")

SendError(c) == ToSocket(c, "message_error", Nil, Nil, None, "Failed to send message")

\* chatId ? ChatModel.findById(chatId) : ChatModel.findOne(...)
ResolveChat(s, r, chatId) == IF chatId # Nil THEN FindChatById(chatId) ELSE FindOne(s, r)

\* The sender's socket joins the room; the receiver's socket id is looked up in
\* onlineUsers and, when that socket is connected, joined too.
SendJoined(c, chat, rsock) ==
  [rooms EXCEPT ![chat] = @ \cup {c} \cup ReceiverSocket(rsock)]

\* data = {senderId: s, receiverId: r, text, chatId}; ok: the find does not throw.
\* The handler up to its second await: what it leaves in rooms and tasks, and
\* what it emits.
SendStart(c, s, r, text, chatId, ok) ==
  LET chat == ResolveChat(s, r, chatId)
      rsock == onlineUsers[r]
  IN IF IsBlank(text) THEN [rooms |-> rooms, tasks |-> tasks, out |-> {}]
     ELSE IF ~ok THEN [rooms |-> rooms, tasks |-> tasks, out |-> SendError(c)]
     ELSE IF chat # Nil
       THEN [rooms |-> SendJoined(c, chat, rsock),
             tasks |-> Append(tasks,
               Task("send", "create_msg", c, s, r, text.chars, chat, Nil, rsock, "")),
             out |-> {}]
       ELSE [rooms |-> rooms,
             tasks |-> Append(tasks,
               Task("send", "create_chat", c, s, r, text.chars, Nil, Nil, None, "")),
             out |-> {}]

SendMessageOut(c, s, r, text, chatId, ok) == SendStart(c, s, r, text, chatId, ok).out

SendMessage(c, s, r, text, chatId, ok) ==
  /\ sockets[c] = "live"
  /\ IF IsBlank(text) THEN ok ELSE Len(tasks) < MaxTasks
  /\ rooms' = SendStart(c, s, r, text, chatId, ok).rooms
  /\ tasks' = SendStart(c, s, r, text, chatId, ok).tasks
  /\ UNCHANGED <<env, sockets, userId, onlineUsers, chats, messages, emitted>>

SendCreateChat(i) ==
  /\ At(i, "send", "create_chat")
  /\ Len(chats) < MaxChats
  /\ LET t == tasks[i]
         chat == Len(chats) + 1
         rsock == onlineUsers[t.receiver]
     IN /\ chats' = Append(chats, NewChat(t.sender, t.receiver))
        /\ rooms' = SendJoined(t.conn, chat, rsock)
        /\ tasks' = [tasks EXCEPT ![i].pc = "create_msg", ![i].chat = chat,
                                  ![i].rsock = rsock]
  /\ UNCHANGED <<env, sockets, userId, onlineUsers, messages, emitted>>

SendCreateMsg(i) ==
  /\ At(i, "send", "create_msg")
  /\ Len(messages) < MaxMsgs
  /\ LET t == tasks[i]
     IN /\ messages' = Append(messages, NewMessage(t.chat, t.sender, t.text))
        /\ tasks' = [tasks EXCEPT ![i].pc = "save_chat", ![i].msg = Len(messages) + 1]
  /\ UNCHANGED <<env, sockets, userId, onlineUsers, rooms, chats, emitted>>

\* chat.lastMessage = newMessage._id; await chat.save()
SendSaveChat(i) ==
  /\ At(i, "send", "save_chat")
  /\ chats' = [chats EXCEPT ![tasks[i].chat].lastMessage = tasks[i].msg]
  /\ tasks' = Goto(i, "populate")
  /\ UNCHANGED <<env, sockets, userId, onlineUsers, rooms, messages, emitted>>

\* socket.to(roomId).emit("user_stopped_typing", {userId: senderId})
StoppedTyping(t) ==
  ToRoomExcept(t.chat, t.conn, "user_stopped_typing", Nil, Nil, t.sender, "")

\* if (receiverSocketId): the socket id read from onlineUsers before the create
WantsDelivered(t) == t.rsock # None

ReceiveMessage(t) == ToRoom(t.chat, "receive_message", t.chat, t.msg, t.sender, "")

SendPopulateOut(i) ==
  ReceiveMessage(tasks[i])
  \cup (IF WantsDelivered(tasks[i]) THEN {} ELSE StoppedTyping(tasks[i]))

SendPopulate(i) ==
  /\ At(i, "send", "populate")
  /\ tasks' = IF WantsDelivered(tasks[i]) THEN Goto(i, "deliver") ELSE RemoveAt(tasks, i)
  /\ emitted' = Record(SendPopulateOut(i))
  /\ UNCHANGED <<env, sockets, userId, onlineUsers, rooms, chats, messages>>

\* MessageModel.findByIdAndUpdate(id, {status: "delivered"})
Delivered(doc) == [doc EXCEPT !.status = "delivered"]

SendDeliverOut(i) ==
  ToRoom(tasks[i].chat, "message_delivered", Nil, tasks[i].msg, None, "")
  \cup StoppedTyping(tasks[i])

SendDeliver(i) ==
  /\ At(i, "send", "deliver")
  /\ messages' = [messages EXCEPT ![tasks[i].msg] = Delivered(@)]
  /\ tasks' = RemoveAt(tasks, i)
  /\ UNCHANGED <<env, sockets, userId, onlineUsers, rooms, chats, emitted>>

SendFailOut(i) == SendError(tasks[i].conn)

\* The awaited storage operation throws; the catch block reports to the socket.
SendFail(i) ==
  /\ i \in TaskIds
  /\ tasks[i].kind = "send"
  /\ tasks' = RemoveAt(tasks, i)
  /\ UNCHANGED <<env, sockets, userId, onlineUsers, rooms, chats, messages, emitted>>

\* ------------------------------------------------------------------ typing
\* The broadcast with io.to in place of socket.to
TypingOutToRoom(c, chat, u) == ToRoom(chat, "user_typing", Nil, Nil, u, "")

TypingOut(c, chat, u) == ToRoomExcept(chat, c, "user_typing", Nil, Nil, u, "")

Typing(c, chat, u) ==
  /\ sockets[c] = "live"
  /\ chat \in 1..Len(chats)
  /\ UNCHANGED vars

StopTypingOut(c, chat, u) == ToRoomExcept(chat, c, "user_stopped_typing", Nil, Nil, u, "")

StopTyping(c, chat, u) ==
  /\ sockets[c] = "live"
  /\ chat \in 1..Len(chats)
  /\ UNCHANGED vars

\* ------------------------------------------------------------ mark_as_read
\* message.readBy.includes(userId)
Includes(readBy, u) == Has(readBy, u)

\* The check without the readBy test: message
NeedsReadAlways(m, u) == m # Nil

\* message && !message.readBy.includes(userId)
NeedsRead(m, u) == m # Nil /\ ~Includes(messages[m].readBy, u)

\* data = {messageId: m, userId: u}.  The handler up to its second await: the
\* tasks it leaves (the save it awaits, if any).
MarkStart(c, m, u) ==
  LET found == FindMessageById(m)
  IN IF NeedsRead(found, u)
       THEN Append(tasks,
              Task("read", "save", c, u, None, <<>>, messages[found].chatId, found, None,
                   messages[found].status))
       ELSE tasks

\* Nothing is emitted before the save.
MarkAsReadOut(c, m, u) == {}

MarkAsRead(c, m, u) ==
  /\ sockets[c] = "live"
  /\ NeedsRead(FindMessageById(m), u) => Len(tasks) < MaxTasks
  /\ tasks' = MarkStart(c, m, u)
  /\ UNCHANGED <<env, sockets, userId, onlineUsers, rooms, chats, messages, emitted>>

\* The save with readBy assigned instead of pushed to: readBy = [userId]
SavedReadAssigned(doc, t) == [doc EXCEPT !.readBy = <<t.sender>>, !.status = "read"]

\* message.save(): $push of the reader, $set of the status when the handler
\* changed it on the document it loaded.
SavedRead(doc, t) ==
  [doc EXCEPT !.readBy = Append(@, t.sender),
              !.status = IF t.loaded # "read" THEN "read" ELSE @]

MarkSaveOut(i) ==
  ToRoom(tasks[i].chat, "message_read", Nil, tasks[i].msg, tasks[i].sender, "")

MarkSave(i) ==
  /\ At(i, "read", "save")
  /\ messages' = [messages EXCEPT ![tasks[i].msg] = SavedRead(@, tasks[i])]
  /\ tasks' = RemoveAt(tasks, i)
  /\ UNCHANGED <<env, sockets, userId, onlineUsers, rooms, chats, emitted>>

\* The save throws; the catch block only logs.
MarkFail(i) ==
  /\ i \in TaskIds
  /\ tasks[i].kind = "read"
  /\ tasks' = RemoveAt(tasks, i)
  /\ UNCHANGED <<env, sockets, userId, onlineUsers, rooms, chats, messages, emitted>>

\* ---------------------------------------------------------- stored history
\* Storage after u1 has sent n messages, those at the positions in other to u3 and
\* the rest to u2, none of them delivered or read.
StoredMessages(n, other) ==
  [k \in 1..n |-> NewMessage(IF k \in other THEN 2 ELSE 1, "u1", TextChars)]

LastOf(msgs, chat) ==
  LET ids == IdsOfChat(msgs, chat, 1) IN IF ids = <<>> THEN Nil ELSE ids[Len(ids)]

StoredChats(msgs) ==
  <<[NewChat("u1", "u2") EXCEPT !.lastMessage = LastOf(msgs, 1)],
    [NewChat("u1", "u3") EXCEPT !.lastMessage = LastOf(msgs, 2)]>>

InitHistory ==
  \E n \in 0..HistMsgs, other \in HistOthers :
    /\ env = History
    /\ sockets = [c \in Conns |-> IF c \in {"c1", "c2"} THEN "live" ELSE "fresh"]
    /\ userId = [c \in Conns |-> None]
    /\ onlineUsers = [u \in Users |-> None]
    /\ rooms = [r \in 1..HistChats |-> {}]
    /\ messages = StoredMessages(n, other)
    /\ chats = StoredChats(messages)
    /\ tasks = <<>>
    /\ emitted = {}

\* The handlers that read the history.
NextHistory ==
  \/ \E p \in env.announces : UserOnline(p[1], p[2])
  \/ \E p \in env.talks, ok \in BOOLEAN : JoinChat(p[1], p[2], p[3], ok)
  \/ \E i \in TaskIds : JoinHistory(i)
  \/ \E i \in TaskIds : JoinFail(i)
  \/ \E p \in env.talks, chat \in ChatIds : AcceptChat(p[1], chat)
  \/ \E i \in TaskIds : AcceptHistory(i)
  \/ \E i \in TaskIds : AcceptFail(i)

SpecHistory == InitHistory /\ [][NextHistory]_vars

\* ------------------------------------------------------ send_message only
\* The connection, user_online and send_message steps: a run in which the clients
\* issue no other event.
NextOrder ==
  \/ \E c \in Conns : Connect(c)
  \/ \E p \in env.announces : UserOnline(p[1], p[2])
  \/ \E p \in env.talks, text \in Texts, chat \in 0..(Len(chats) + 1), ok \in BOOLEAN :
        SendMessage(p[1], p[2], p[3], text, chat, ok)
  \/ \E i \in TaskIds : SendCreateChat(i)
  \/ \E i \in TaskIds : SendCreateMsg(i)
  \/ \E i \in TaskIds : SendSaveChat(i)
  \/ \E i \in TaskIds : SendPopulate(i)
  \/ \E i \in TaskIds : SendDeliver(i)
  \/ \E i \in TaskIds : SendFail(i)

SpecOrder == InitIn(Order) /\ [][NextOrder]_vars

\* ------------------------------------------- join_chat and send_message only
\* The connection, user_online, join_chat and send_message steps.
NextLate ==
  \/ NextOrder
  \/ \E p \in env.talks, ok \in BOOLEAN : JoinChat(p[1], p[2], p[3], ok)
  \/ \E i \in TaskIds : JoinCreateChat(i)
  \/ \E i \in TaskIds : JoinHistory(i)
  \/ \E i \in TaskIds : JoinFail(i)

SpecLate == InitIn(Late) /\ [][NextLate]_vars

\* -------------------------------------------------------------------- Next
Next ==
  \/ \E c \in Conns : Connect(c)
  \/ \E p \in env.announces : UserOnline(p[1], p[2])
  \/ \E c \in Conns : Disconnect(c)
  \/ \E p \in env.talks, ok \in BOOLEAN : JoinChat(p[1], p[2], p[3], ok)
  \/ \E i \in TaskIds : JoinCreateChat(i)
  \/ \E i \in TaskIds : JoinHistory(i)
  \/ \E i \in TaskIds : JoinFail(i)
  \/ \E p \in env.talks, chat \in ChatIds : AcceptChat(p[1], chat)
  \/ \E i \in TaskIds : AcceptHistory(i)
  \/ \E i \in TaskIds : AcceptFail(i)
  \/ \E p \in env.talks, text \in Texts, chat \in 0..(Len(chats) + 1), ok \in BOOLEAN :
        SendMessage(p[1], p[2], p[3], text, chat, ok)
  \/ \E i \in TaskIds : SendCreateChat(i)
  \/ \E i \in TaskIds : SendCreateMsg(i)
  \/ \E i \in TaskIds : SendSaveChat(i)
  \/ \E i \in TaskIds : SendPopulate(i)
  \/ \E i \in TaskIds : SendDeliver(i)
  \/ \E i \in TaskIds : SendFail(i)
  \/ \E p \in env.talks, chat \in ChatIds : Typing(p[1], chat, p[2])
  \/ \E p \in env.talks, chat \in ChatIds : StopTyping(p[1], chat, p[2])
  \/ \E p \in env.reads, m \in 1..(Len(messages) + 1) : MarkAsRead(p[1], m, p[2])
  \/ \E i \in TaskIds : MarkSave(i)
  \/ \E i \in TaskIds : MarkFail(i)

Spec == Init /\ [][Next]_vars

SpecWide == InitIn(Wide) /\ [][Next]_vars

SpecDeep == InitIn(Deep) /\ [][Next]_vars

SpecRead == InitIn(Read) /\ [][Next]_vars

\* ------------------------------------------------------------------ claims
PairOf(k) == {chats[k].participants[j] : j \in 1..Len(chats[k].participants)}

JoinAcked == {i \in TaskIds : tasks[i].kind = "join" /\ tasks[i].pc = "history"}

\* C1: storage holds at most one Chat per unordered pair of participants, and the
\* join_chat handlers that have emitted chat_joined for one pair carry one chatId.
C1_OneChatPerPair ==
  /\ \A j, k \in 1..Len(chats) : PairOf(j) = PairOf(k) => j = k
  /\ \A i, j \in JoinAcked :
       {tasks[i].sender, tasks[i].receiver} = {tasks[j].sender, tasks[j].receiver}
         => tasks[i].chat = tasks[j].chat

Rank(status) == CASE status = "sent" -> 0 [] status = "delivered" -> 1 [] status = "read" -> 2

\* C2: the persisted status of a message only moves forward along
\* sent -> delivered -> read.
C2_StatusForward ==
  [][\A m \in 1..Len(messages) : Rank(messages'[m].status) >= Rank(messages[m].status)]_vars

\* C3: once a mark_as_read for a message and a reader has completed (its save is
\* done), handling mark_as_read for the same message and reader again is a no-op
\* from then on: it ends at its readBy test with no save pending, so readBy and
\* status stay as they are and no further message_read is emitted.
C3_MarkReadIdempotent ==
  [][\A m \in 1..Len(messages), p \in env.reads :
       (\/ \E i \in TaskIds : MarkSave(i) /\ tasks[i].msg = m /\ tasks[i].sender = p[2]
        \/ MarkStart(p[1], m, p[2]) = tasks)
         => (MarkStart(p[1], m, p[2]) = tasks)']_vars

C3_Witness ==
  \E p \in env.reads, m \in 1..Len(messages) :
    /\ sockets[p[1]] = "live"
    /\ messages[m].senderId # p[2]
    /\ messages[m].status = "read"
    /\ Has(messages[m].readBy, p[2])
    /\ tasks = <<>>

AllSpaces(chars) == \A k \in 1..Len(chars) : chars[k] = SP

\* C4: a send_message whose text is missing, empty or whitespace-only changes
\* nothing and emits nothing: handled on a live connection in any reachable state,
\* it leaves rooms and tasks as they are (no room joined, no storage operation
\* awaited, so no Message or Chat written later on its behalf) and emits nothing.
C4_BlankSendIsNoOp ==
  \A p \in env.talks, text \in Texts, chat \in 0..(Len(chats) + 1), ok \in BOOLEAN :
    (sockets[p[1]] = "live" /\ (~text.present \/ AllSpaces(text.chars)))
      => SendStart(p[1], p[2], p[3], text, chat, ok) =
           [rooms |-> rooms, tasks |-> tasks, out |-> {}]

C4_Witness ==
  \E p \in env.talks :
    /\ sockets[p[1]] = "live"
    /\ Len(chats) >= 1
    /\ Len(messages) >= 1
    /\ Len(tasks) < MaxTasks
    /\ p[1] \notin rooms[1]

\* C5: after a connection's disconnect has been handled, onlineUsers maps no
\* identity to that connection.
C5_NoEntryForClosed ==
  \A c \in Conns : sockets[c] = "closed" => \A u \in Users : onlineUsers[u] # c

OthersOf(c) == {d \in Live \ {c} : userId[d] = userId[c]}

\* C6: when a connection disconnects while another live connection is bound to the
\* same identity, the identity's entry stays and points to a live connection, and no
\* offline user_status is broadcast for it.
C6_StaysOnline ==
  [][\A c \in Conns :
       (Disconnect(c) /\ userId[c] # None /\ OthersOf(c) # {})
         => /\ onlineUsers'[userId[c]] \in Live \ {c}
            /\ \A e \in DisconnectOut(c) : e.info # "offline"]_vars

\* C7: the senderId of every persisted Message is a participant of the Chat the
\* message belongs to.
C7_SenderIsParticipant ==
  \A m \in 1..Len(messages) :
    Has(chats[messages[m].chatId].participants, messages[m].senderId)

\* A live connection that is bound to u or that onlineUsers holds for u.
HasLiveConn(u) == \E c \in Live : userId[c] = u \/ onlineUsers[u] = c

\* C8: send_message sets a message to delivered only when the receiver has a live
\* connection at the moment of the transition; a message whose receiver has none
\* then (it never announced, or disconnected after the handler's presence lookup)
\* keeps status sent.
C8_DeliveredOnlyIfLive ==
  [][\A i \in TaskIds : SendDeliver(i) => HasLiveConn(tasks[i].receiver)]_vars

ReceivesOf(o) == {e.to : e \in {x \in o : x.ev = "receive_message"}}

\* C9: send_message joins every live connection of the receiver to the chat's room
\* when it resolves the chat, whether or not the receiver issued join_chat, and
\* receive_message goes to every live connection in the room.
C9_ReachesAllReceiverConns ==
  [][/\ \A i \in TaskIds :
          /\ SendCreateChat(i) =>
               \A c \in Live : userId[c] = tasks[i].receiver => c \in rooms'[Len(chats')]
          /\ SendPopulate(i) =>
               ReceivesOf(SendPopulateOut(i)) = rooms[tasks[i].chat] \cap Live
     /\ \A p \in env.talks, chat \in 0..Len(chats) :
          (ResolveChat(p[2], p[3], chat) # Nil
             /\ SendMessage(p[1], p[2], p[3], [present |-> TRUE, chars |-> TextChars],
                            chat, TRUE))
            => \A c \in Live :
                 userId[c] = p[3] => c \in rooms'[ResolveChat(p[2], p[3], chat)]]_vars

Observable(m) ==
  \/ \E e \in emitted : e.msg = m
  \/ \E chat \in 1..Len(chats) : Has(ChatHistory(messages, chat), m)

\* C10: when a send_message ends with message_error because a storage operation
\* threw, its message was broadcast to nobody and is in no chat_history.
C10_FailedSendLeavesNothing ==
  [][\A i \in TaskIds : SendFail(i) => ~Observable(tasks[i].msg)]_vars

SentTo(o, ev) == {e.to : e \in {x \in o : x.ev = ev}}

\* C11: when the save of a mark_as_read {messageId, userId} completes, userId is in
\* the message's readBy, the persisted status is read, and message_read
\* {messageId, userId} goes to every live connection in the owning chat's room and
\* to nobody else; it reaches the connection the registry holds for the message's
\* sender when that connection is live.
C11_MarkReadReachesRoom ==
  [][\A i \in TaskIds :
       MarkSave(i) =>
         LET t == tasks[i]
             author == messages[t.msg].senderId
         IN /\ Has(messages'[t.msg].readBy, t.sender)
            /\ messages'[t.msg].status = "read"
            /\ SentTo(MarkSaveOut(i), "message_read") = rooms[t.chat] \cap Live
            /\ \A e \in MarkSaveOut(i) :
                 e.ev = "message_read" /\ e.msg = t.msg /\ e.user = t.sender
            /\ onlineUsers[author] \in Live
                 => onlineUsers[author] \in SentTo(MarkSaveOut(i), "message_read")]_vars

\* u sent message m, or receive_message for m went to a connection bound to u.
SentOrReceived(u, m) ==
  \/ messages[m].senderId = u
  \/ \E e \in emitted : e.msg = m /\ userId[e.to] = u

\* C12: the room of a chat contains every live connection bound to a participant
\* of the chat who has sent or received a message in it.
C12_RoomHoldsParticipants ==
  \A m \in 1..Len(messages) :
    \A u \in PairOf(messages[m].chatId) :
      SentOrReceived(u, m)
        => \A c \in Live : userId[c] = u => c \in rooms[messages[m].chatId]

OthersInRoom(c, chat) == (rooms[chat] \cap Live) \ {c}

\* C13: typing and stop_typing {chatId, userId} from a live connection emit
\* user_typing / user_stopped_typing {userId} to every live connection in the
\* chat's room other than the originating one and to no other connection, and the
\* step leaves chats, messages, the presence registry and the rooms unchanged.
C13_TypingToOthersOnly ==
  /\ [](\A p \in env.talks, chat \in 1..Len(chats) :
          sockets[p[1]] = "live"
            => /\ SentTo(TypingOut(p[1], chat, p[2]), "user_typing")
                    = OthersInRoom(p[1], chat)
               /\ SentTo(StopTypingOut(p[1], chat, p[2]), "user_stopped_typing")
                    = OthersInRoom(p[1], chat)
               /\ \A e \in TypingOut(p[1], chat, p[2]) :
                    e.ev = "user_typing" /\ e.user = p[2]
               /\ \A e \in StopTypingOut(p[1], chat, p[2]) :
                    e.ev = "user_stopped_typing" /\ e.user = p[2])
  /\ [][\A p \in env.talks, chat \in ChatIds :
          (Typing(p[1], chat, p[2]) \/ StopTyping(p[1], chat, p[2]))
            => UNCHANGED <<chats, messages, onlineUsers, userId, rooms>>]_vars

C13_Witness ==
  \E p \in env.talks, chat \in 1..Len(chats) :
    /\ sockets[p[1]] = "live"
    /\ p[1] \in rooms[chat]
    /\ OthersInRoom(p[1], chat) # {}

IsError(e) == e.ev = "error" \/ e.ev = "message_error"

\* What the next step of the suspended handler i emits, whether the awaited
\* operation resolves or throws.
TaskOut(i) ==
  LET t == tasks[i]
  IN CASE t.kind = "join" ->
            JoinFailOut(i) \cup (IF t.pc = "create_chat" THEN JoinCreateChatOut(i)
                                                         ELSE JoinHistoryOut(i))
       [] t.kind = "accept" -> AcceptHistoryOut(i)
       [] t.kind = "send" ->
            SendFailOut(i) \cup (IF t.pc = "populate" THEN SendPopulateOut(i)
                                 ELSE IF t.pc = "deliver" THEN SendDeliverOut(i) ELSE {})
       [] t.kind = "read" -> MarkSaveOut(i)

Newest(seq, n) == SubSeq(seq, IF Len(seq) > n THEN Len(seq) - n + 1 ELSE 1, Len(seq))

\* C15: the chat_history emitted on join_chat for a chat holding n messages is the
\* min(n, 50) most recently created messages of that chat, oldest first.
C15_HistoryIsNewest ==
  \A i \in TaskIds :
    At(i, "join", "history")
      => \A e \in JoinHistoryOut(i) :
           e.ev = "chat_history"
             => e.list = Newest(IdsOfChat(messages, tasks[i].chat, 1), HistoryLimit)

\* C16: a send_message with a text and a chatId that matches no stored Chat ends
\* in its first step with message_error to the originator: it joins no room and
\* awaits no storage operation (so it goes on to no ChatModel.create and no
\* MessageModel.create).
C16_UnknownChatIdIsError ==
  \A p \in env.talks, chat \in 1..(Len(chats) + 1) :
    (sockets[p[1]] = "live" /\ FindChatById(chat) = Nil)
      => SendStart(p[1], p[2], p[3], [present |-> TRUE, chars |-> TextChars], chat, TRUE)
           = [rooms |-> rooms, tasks |-> tasks, out |-> SendError(p[1])]

Members(seq) == {seq[k] : k \in 1..Len(seq)}

\* C17: a message is created with readBy = [senderId]; afterwards its readBy never
\* loses a member, and it changes only in the save of a mark_as_read for that
\* message, which appends that handler's userId.  No step of join_chat,
\* accept_chat, send_message (the delivered update included), typing, user_online
\* or disconnect changes the readBy of an existing message.
C17_ReadByOnlyGrows ==
  [][/\ Len(messages') >= Len(messages)
     /\ \A m \in 1..Len(messages) :
          /\ Members(messages[m].readBy) \subseteq Members(messages'[m].readBy)
          /\ messages'[m].readBy # messages[m].readBy
               => \E i \in TaskIds :
                    /\ MarkSave(i)
                    /\ tasks[i].msg = m
                    /\ messages'[m].readBy = Append(messages[m].readBy, tasks[i].sender)
     /\ \A m \in (Len(messages) + 1)..Len(messages') :
          messages'[m].readBy = <<messages'[m].senderId>>]_vars

C17_Witness ==
  \E m \in 1..Len(messages) :
    /\ Len(messages[m].readBy) >= 2
    /\ messages[m].status = "delivered"

\* C18: a mark_as_read whose messageId matches no stored message, handled on a
\* live connection, is a no-op: the handler ends at its test of the lookup result
\* with no save pending (so no message is modified and no message_read follows),
\* and it emits nothing, in particular no error event.
C18_UnknownMessageIsNoOp ==
  \A p \in env.reads, m \in 1..(Len(messages) + 1) :
    (sockets[p[1]] = "live" /\ m \notin 1..Len(messages))
      => /\ MarkStart(p[1], m, p[2]) = tasks
         /\ MarkAsReadOut(p[1], m, p[2]) = {}

C18_Witness ==
  \E p \in env.reads :
    /\ sockets[p[1]] = "live"
    /\ Len(messages) >= 1
    /\ ~Has(messages[Len(messages)].readBy, p[2])
    /\ Len(tasks) < MaxTasks

\* C19: every connection that message_delivered for a message is emitted to has
\* been sent receive_message for that message before (so message_delivered goes
\* out for no message whose receive_message went to nobody).
C19_ReceiveBeforeDelivered ==
  [][\A i \in TaskIds :
       SendDeliver(i)
         => \A c \in SentTo(SendDeliverOut(i), "message_delivered") :
              \E r \in emitted : r.msg = tasks[i].msg /\ r.to = c]_vars

\* Handlers i and j serve send_message events of one connection, i's event having
\* arrived first (tasks are kept in arrival order).
EarlierSend(i, j) ==
  /\ i < j
  /\ tasks[i].kind = "send" /\ tasks[j].kind = "send"
  /\ tasks[i].conn = tasks[j].conn

\* C20: of two send_message events of one connection, the handler of the later one
\* does not persist its message while the earlier one has not persisted its own,
\* and does not broadcast receive_message while the earlier one has not broadcast.
C20_SendsKeepOrder ==
  [][\A i, j \in TaskIds :
       EarlierSend(i, j)
         => /\ tasks[i].pc \in {"create_chat", "create_msg"} => ~SendCreateMsg(j)
            /\ tasks[i].pc \in {"create_chat", "create_msg", "save_chat", "populate"}
                 => ~SendPopulate(j)]_vars

C22_SenderIsBoundIdentity ==
  [][\A i \in TaskIds :
       SendCreateMsg(i) => userId[tasks[i].conn] = tasks[i].sender]_vars

\* C23: in every reachable state the readBy of every message holds each
\* identity at most once (one save, and so one message_read, per message and
\* reader).
C23_ReadByHasNoDuplicates ==
  \A m \in 1..Len(messages) :
    \A j, k \in 1..Len(messages[m].readBy) :
      j # k => messages[m].readBy[j] # messages[m].readBy[k]

\* No send_message handler of the chat is in flight, and every message of the
\* chat was broadcast, so the handler that created it got past its chat.save().
SendsCompleted(chat) ==
  /\ \A i \in TaskIds : tasks[i].kind = "send" => tasks[i].chat # chat
  /\ \A m \in 1..Len(messages) :
       messages[m].chatId = chat => \E r \in emitted : r.msg = m

\* C24: once all send_message handlers of a chat have completed successfully,
\* the chat's lastMessage is the most recently created message of the chat.
C24_LastMessageIsNewest ==
  \A chat \in 1..Len(chats) :
    SendsCompleted(chat) /\ LastOf(messages, chat) # Nil
      => chats[chat].lastMessage = LastOf(messages, chat)
====
